---- MODULE Spec2Model ----
(***************************************************************************)
(* Model of the seat-occupancy tracker RoIBusinessLogic                    *)
(* (src/event_factory/roi/business_logic.py) and of the region filter      *)
(* RegionOfInterest (src/event_factory/roi/roi.py).                        *)
(*                                                                         *)
(* Coordinates are held in half pixels (Scale units per pixel), so that    *)
(* the division by 2 of _calculate_medium_point is exact on every box      *)
(* whose corners are whole pixels.  A chair dict created by                *)
(* _create_chair_map is an object that may sit in several rows of the      *)
(* matrix; the model keeps the chair objects in a heap (chairs) and the    *)
(* matrix (chair_map) holds references into it.                            *)
(***************************************************************************)
EXTENDS Integers, Sequences, FiniteSets, TLC

VARIABLES
    chair_count,   \* self._chair_count
    chair_map,     \* self._chair_map: rows of references to chair objects
    chairs,        \* the chair objects: reference -> [x, y, occupied]
    pc,            \* the caller: "idle", "pending" (holds a frame not yet processed),
                   \* "returned" (holds a processed Detection) or "raised" (the call
                   \* was left by an exception); "raw" and "filtered" around the
                   \* region filter
    detection,     \* detection['predictions'] of the caller's Detection object
    calls,         \* the process calls made on that object: [branch, event] each
    received,      \* how many predictions the object held when process was last called
    before,        \* the chair objects when process was last called
    events,        \* what that call returned: <<>> stands for None
    flipped,       \* references whose _check_chair_occupied call returned True, in scan order
    handed,        \* detection['predictions'] as it was when the last step was called
    region,        \* RegionOfInterest._region: the vertices of the polygon
    threads        \* the process calls running concurrently on the tracker

vars == <<chair_count, chair_map, chairs, pc, detection, calls, received, before,
          events, flipped, handed, region, threads>>

----------------------------------------------------------------------------
(* Bounds of the model                                                     *)

MaxPreds == 6      \* most predictions in one incoming frame
MaxCalPreds == 7   \* most predictions in the frame of a calibration on its own

(* Half pixels per pixel.                                                  *)
Scale == 2

(* The row tolerance of _create_chair_map and its noise threshold.         *)
RowTolerance == 55
NoiseRowLen == 4

(* The values uuid4 may return.                                            *)
UUIDs == {"u1", "u2"}

(* The signals hold a reference to the caller's Detection object; one such *)
(* object is alive at a time.                                              *)
DetectionRef == "detection"

----------------------------------------------------------------------------
(* Values                                                                  *)

Point(x, y) == [x |-> x, y |-> y]

(* boundingBox.coordinates: top-left, top-right, bottom-right, bottom-left *)
Quad(x0, y0, x1, y1) == <<Point(x0, y0), Point(x1, y0), Point(x1, y1), Point(x0, y1)>>

(* coordinates[i] with the source's 0-based index                          *)
Coord(pred, i) == pred.coordinates[i + 1]

(* classId values.  A detected chair carries the class filter's name; the  *)
(* summary label (line 125) carries the three counts; a marker label       *)
(* (lines 177 and 179) carries the row index and the state.                *)
ChairLabel == [kind |-> "chair"]
CountLabel(total, occupied, free) ==
    [kind |-> "count", total |-> total, occupied |-> occupied, free |-> free]
PointLabel(line, state) == [kind |-> "M", line |-> line, state |-> state]

(* A prediction of the detector after the class filter.                    *)
ChairPred(x0, y0, x1, y1) ==
    [classId |-> ChairLabel,
     coordinates |-> Quad(Scale * x0, Scale * y0, Scale * x1, Scale * y1)]

----------------------------------------------------------------------------
(* Sequence helpers                                                        *)

RECURSIVE SumLen(_)
SumLen(rows) == IF rows = <<>> THEN 0 ELSE Len(Head(rows)) + SumLen(Tail(rows))

RECURSIVE Flatten(_)
Flatten(rows) == IF rows = <<>> THEN <<>> ELSE Head(rows) \o Flatten(Tail(rows))

Range(s) == {s[i] : i \in 1..Len(s)}

(* list.pop(i) and list.insert(0, v), 0-based                              *)
Pop(s, i) == [j \in 1..(Len(s) - 1) |-> IF j < i + 1 THEN s[j] ELSE s[j + 1]]
InsertFront(s, v) == <<v>> \o s

----------------------------------------------------------------------------
(* The top-left corner of the box in place of its centre.                  *)
CalculateMediumPointCorner(pred) == Point(Coord(pred, 0).x, Coord(pred, 0).y)

(* _calculate_medium_point: the centre of a prediction's box.              *)
(* In half pixels the halved differences are whole numbers.                *)
CalculateMediumPoint(pred) ==
    Point(((Coord(pred, 1).x - Coord(pred, 0).x) \div 2) + Coord(pred, 0).x,
          ((Coord(pred, 2).y - Coord(pred, 1).y) \div 2) + Coord(pred, 1).y)

(* A chair dict that starts occupied.                                      *)
NewChairOccupied(pred) ==
    [x |-> CalculateMediumPoint(pred).x,
     y |-> CalculateMediumPoint(pred).y,
     occupied |-> TRUE]

(* The chair dicts _create_chair_map creates, one per prediction, each     *)
(* with occupied = False; the reference of a chair is the index of its     *)
(* prediction.                                                             *)
NewChair(pred) ==
    [x |-> CalculateMediumPoint(pred).x,
     y |-> CalculateMediumPoint(pred).y,
     occupied |-> FALSE]

NewChairs(predictions) == [k \in 1..Len(predictions) |-> NewChair(predictions[k])]

(* The row test with the limits included.                                  *)
InRowClosed(chair, anchor) ==
    /\ chair.y <= anchor.y + Scale * RowTolerance
    /\ chair.y >= anchor.y - Scale * RowTolerance

(* The row test of _create_chair_map (line 230), strict on both sides.     *)
InRow(chair, anchor) ==
    /\ chair.y < anchor.y + Scale * RowTolerance
    /\ chair.y > anchor.y - Scale * RowTolerance

(* One pass of the for loop at line 218 for chair k.                       *)
JoinRows(objs, k, matrix, main) ==
    [i \in 1..Len(matrix) |->
        IF InRow(objs[k], objs[main[i]]) THEN Append(matrix[i], k) ELSE matrix[i]]

Added(objs, k, main) == \E i \in 1..Len(main) : InRow(objs[k], objs[main[i]])

RECURSIVE Cluster(_, _, _, _)
Cluster(objs, k, matrix, main) ==
    IF k > Len(objs) THEN matrix
    ELSE IF main = <<>> THEN Cluster(objs, k + 1, <<<<k>>>>, <<k>>)
    ELSE IF Added(objs, k, main)
         THEN Cluster(objs, k + 1, JoinRows(objs, k, matrix, main), main)
         ELSE Cluster(objs, k + 1, Append(matrix, <<k>>), Append(main, k))

(* Lines 238-241 with remove.append(i): the indices first to last.         *)
RECURSIVE RemoveListAppend(_, _, _)
RemoveListAppend(matrix, i, remove) ==
    IF i >= Len(matrix) THEN remove
    ELSE IF Len(matrix[i + 1]) <= NoiseRowLen
         THEN RemoveListAppend(matrix, i + 1, Append(remove, i))
         ELSE RemoveListAppend(matrix, i + 1, remove)

(* Lines 238-241: the 0-based indices of the rows to drop, last first.     *)
RECURSIVE RemoveList(_, _, _)
RemoveList(matrix, i, remove) ==
    IF i >= Len(matrix) THEN remove
    ELSE IF Len(matrix[i + 1]) <= NoiseRowLen
         THEN RemoveList(matrix, i + 1, InsertFront(remove, i))
         ELSE RemoveList(matrix, i + 1, remove)

(* Lines 243-244.                                                          *)
RECURSIVE PopAll(_, _)
PopAll(matrix, remove) ==
    IF remove = <<>> THEN matrix
    ELSE PopAll(Pop(matrix, Head(remove)), Tail(remove))

CreateChairMap(predictions) ==
    LET matrix == Cluster(NewChairs(predictions), 1, <<>>, <<>>)
    IN  PopAll(matrix, RemoveList(matrix, 0, <<>>))

----------------------------------------------------------------------------
(* Steady state                                                            *)

(* The containment test of _check_chair_occupied (lines 289 and 291):      *)
(* closed on all four sides.                                               *)
Inside(chair, pred) ==
    /\ chair.x >= Coord(pred, 0).x
    /\ chair.x <= Coord(pred, 1).x
    /\ chair.y >= Coord(pred, 1).y
    /\ chair.y <= Coord(pred, 2).y

(* The test of lines 289 and 291 raises IndexError on a box with fewer     *)
(* corners than it reads: corner 0 is read first, corner 1 only when the   *)
(* first comparison held, corner 2 only when the next two held.            *)
InsideRaises(chair, pred) ==
    \/ Len(pred.coordinates) < 1
    \/ Len(pred.coordinates) < 2 /\ chair.x >= Coord(pred, 0).x
    \/ /\ Len(pred.coordinates) < 3
       /\ chair.x >= Coord(pred, 0).x
       /\ chair.x <= Coord(pred, 1).x
       /\ chair.y >= Coord(pred, 1).y

(* The for loop at line 287 from prediction p on: it returns at the first  *)
(* prediction that contains the chair ("covered"), runs to the end         *)
(* ("uncovered"), or is left by the exception of a malformed prediction    *)
(* reached before either ("raised").                                       *)
RECURSIVE Covered(_, _, _)
Covered(chair, predictions, p) ==
    IF p > Len(predictions) THEN "uncovered"
    ELSE IF InsideRaises(chair, predictions[p]) THEN "raised"
    ELSE IF Inside(chair, predictions[p]) THEN "covered"
    ELSE Covered(chair, predictions, p + 1)

SetOccupied(objs, ref, value) == [objs EXCEPT ![ref].occupied = value]

Unchanged(objs, raised) == [changed |-> FALSE, objs |-> objs, raised |-> raised]
Changed(objs) == [changed |-> TRUE, objs |-> objs, raised |-> FALSE]

(* _check_chair_occupied setting the flag from the evidence: covered means *)
(* occupied.                                                               *)
CheckChairOccupiedCoveredIsOccupied(map, objs, line, column, predictions) ==
    LET ref == map[line + 1][column + 1]
        outcome == Covered(objs[ref], predictions, 1)
    IN  IF outcome = "raised" THEN Unchanged(objs, TRUE)
        ELSE IF outcome = "covered"
        THEN IF objs[ref].occupied
             THEN Unchanged(objs, FALSE)
             ELSE Changed(SetOccupied(objs, ref, TRUE))
        ELSE IF ~objs[ref].occupied
             THEN Unchanged(objs, FALSE)
             ELSE Changed(SetOccupied(objs, ref, FALSE))

(* _check_chair_occupied flipping the flag of every uncovered chair.       *)
CheckChairOccupiedUncoveredFlips(map, objs, line, column, predictions) ==
    LET ref == map[line + 1][column + 1]
        outcome == Covered(objs[ref], predictions, 1)
    IN  IF outcome = "raised" THEN Unchanged(objs, TRUE)
        ELSE IF outcome = "covered"
        THEN IF ~objs[ref].occupied
             THEN Unchanged(objs, FALSE)
             ELSE Changed(SetOccupied(objs, ref, FALSE))
        ELSE Changed(SetOccupied(objs, ref, ~objs[ref].occupied))

(* _check_chair_occupied flipping the flag of every covered chair.         *)
CheckChairOccupiedToggle(map, objs, line, column, predictions) ==
    LET ref == map[line + 1][column + 1]
        outcome == Covered(objs[ref], predictions, 1)
    IN  IF outcome = "raised" THEN Unchanged(objs, TRUE)
        ELSE IF outcome = "covered"
        THEN Changed(SetOccupied(objs, ref, ~objs[ref].occupied))
        ELSE IF objs[ref].occupied
             THEN Unchanged(objs, FALSE)
             ELSE Changed(SetOccupied(objs, ref, TRUE))

(* _check_chair_occupied with the assignment of line 303 left out.         *)
CheckChairOccupiedNoSet(map, objs, line, column, predictions) ==
    LET ref == map[line + 1][column + 1]
        outcome == Covered(objs[ref], predictions, 1)
    IN  IF outcome = "raised" THEN Unchanged(objs, TRUE)
        ELSE IF outcome = "covered"
        THEN IF ~objs[ref].occupied
             THEN Unchanged(objs, FALSE)
             ELSE Changed(SetOccupied(objs, ref, FALSE))
        ELSE IF objs[ref].occupied
             THEN Unchanged(objs, FALSE)
             ELSE Changed(objs)

(* _check_chair_occupied on the chair at chair_map[line][column]: the      *)
(* value returned, the chair objects afterwards, and whether the call was  *)
(* left by an exception instead of a return.                               *)
CheckChairOccupied(map, objs, line, column, predictions) ==
    LET ref == map[line + 1][column + 1]
        outcome == Covered(objs[ref], predictions, 1)
    IN  IF outcome = "raised" THEN Unchanged(objs, TRUE)
        ELSE IF outcome = "covered"
        THEN IF ~objs[ref].occupied
             THEN Unchanged(objs, FALSE)
             ELSE Changed(SetOccupied(objs, ref, FALSE))
        ELSE IF objs[ref].occupied
             THEN Unchanged(objs, FALSE)
             ELSE Changed(SetOccupied(objs, ref, TRUE))

(* _check_chair_map: the two nested loops from (i, j) on.  flips lists the *)
(* references whose call returned True.  An exception raised by a call     *)
(* ends the loops; the chairs visited before it keep their new flags.      *)
RECURSIVE ScanMap(_, _, _, _, _, _, _)
ScanMap(map, objs, i, j, predictions, changed, flips) ==
    IF i >= Len(map)
    THEN [changed |-> changed, objs |-> objs, flips |-> flips, raised |-> FALSE]
    ELSE IF j >= Len(map[i + 1])
         THEN ScanMap(map, objs, i + 1, 0, predictions, changed, flips)
         ELSE LET r == CheckChairOccupied(map, objs, i, j, predictions)
              IN  IF r.raised
                  THEN [changed |-> changed, objs |-> objs, flips |-> flips,
                        raised |-> TRUE]
                  ELSE ScanMap(map, r.objs, i, j + 1, predictions,
                               changed \/ r.changed,
                               IF r.changed THEN Append(flips, map[i + 1][j + 1])
                               ELSE flips)

(* _check_chair_map with line 265 as "changed = <the call's result>": the  *)
(* last chair's result alone is returned.                                  *)
CheckChairMapLastOnly(map, objs, predictions) ==
    LET r == ScanMap(map, objs, 0, 0, predictions, FALSE, <<>>)
        last == map[Len(map)][Len(map[Len(map)])]
    IN  [r EXCEPT !.changed = (r.flips # <<>> /\ r.flips[Len(r.flips)] = last)]

CheckChairMap(map, objs, predictions) ==
    ScanMap(map, objs, 0, 0, predictions, FALSE, <<>>)

----------------------------------------------------------------------------
(* Overlay annotations and the event pair                                  *)

(* The counting loop of _add_count (lines 119-123): one count per entry    *)
(* of the matrix.                                                          *)
OccupiedChairs(map, objs) ==
    LET flat == Flatten(map)
    IN  Cardinality({e \in 1..Len(flat) : objs[flat[e]].occupied})

(* _add_count                                                              *)
AddCount(map, objs, count) ==
    LET occupied_chairs == OccupiedChairs(map, objs)
    IN  [classId |-> CountLabel(count, occupied_chairs, count - occupied_chairs),
         coordinates |-> Quad(0, 0, Scale * 1, Scale * 1)]

(* _create_point with the box centred on the point.                        *)
CreatePointCentred(point, name) ==
    [classId |-> name,
     coordinates |-> Quad(point.x - Scale * 1, point.y - Scale * 1,
                          point.x + Scale * 1, point.y + Scale * 1)]

(* _create_point                                                           *)
CreatePoint(point, name) ==
    [classId |-> name,
     coordinates |-> Quad(point.x, point.y, point.x + Scale * 2, point.y + Scale * 2)]

(* The markers of row i labelled with the row's 1-based number.            *)
RowPointsOneBased(map, objs, i) ==
    [j \in 1..Len(map[i + 1]) |->
        IF objs[map[i + 1][j]].occupied
        THEN CreatePoint(objs[map[i + 1][j]], PointLabel(i + 1, "ocupado"))
        ELSE CreatePoint(objs[map[i + 1][j]], PointLabel(i + 1, "livre"))]

(* The markers of row i (0-based), lines 175-179.                          *)
RowPoints(map, objs, i) ==
    [j \in 1..Len(map[i + 1]) |->
        IF objs[map[i + 1][j]].occupied
        THEN CreatePoint(objs[map[i + 1][j]], PointLabel(i, "ocupado"))
        ELSE CreatePoint(objs[map[i + 1][j]], PointLabel(i, "livre"))]

RECURSIVE AllPoints(_, _, _)
AllPoints(map, objs, i) ==
    IF i >= Len(map) THEN <<>>
    ELSE RowPoints(map, objs, i) \o AllPoints(map, objs, i + 1)

(* _insert_info: the detection's predictions after the appends.            *)
InsertInfo(predictions, map, objs, count) ==
    Append(predictions, AddCount(map, objs, count)) \o AllPoints(map, objs, 0)

(* _create_event calling uuid4 once per signal.                            *)
CreateEventTwoIds(event_id, det) ==
    << [signal |-> "EventStartedSignal", eventId |-> event_id, detection |-> det],
       [signal |-> "EventEndedSignal",
        eventId |-> CHOOSE u \in UUIDs : u # event_id, detection |-> det] >>

(* _create_event: event_id is the value uuid4 returned, det the Detection  *)
(* object handed to both signals.                                          *)
CreateEvent(event_id, det) ==
    << [signal |-> "EventStartedSignal", eventId |-> event_id, detection |-> det],
       [signal |-> "EventEndedSignal", eventId |-> event_id, detection |-> det] >>

----------------------------------------------------------------------------
(* Incoming frames.  The k-th prediction of a frame is a 4 by 4 pixel box  *)
(* in column k (10 pixels per column) whose top edge is at one of three    *)
(* heights: boxes at 10 and 110 are too far apart for one row, a box at 60 *)
(* is within the row tolerance of both.  A frame is up to two single boxes *)
(* at the far-apart heights followed by a run of boxes of one height,      *)
(* MaxPreds boxes at most.                                                 *)

FarBands == {10, 110}

Bands == FarBands \cup {60}

Block(b, c) == [i \in 1..c |-> b]

BandSeqs ==
    { Block(t[1], t[2]) \o Block(t[3], t[4]) \o Block(t[5], t[6]) :
        t \in { u \in FarBands \X (0..1) \X FarBands \X (0..1) \X Bands \X (0..MaxPreds) :
                    u[2] + u[4] + u[6] <= MaxPreds } }

Frame(bs) == [k \in 1..Len(bs) |-> ChairPred(10 * k, bs[k], 10 * k + 4, bs[k] + 4)]

Frames == { Frame(bs) : bs \in BandSeqs }

----------------------------------------------------------------------------
(* The state machine                                                       *)

Restrict(f, S) == [r \in S |-> f[r]]

Init ==
    /\ chair_count = 0
    /\ chair_map = <<>>
    /\ chairs = <<>>
    /\ pc = "idle"
    /\ detection = <<>>
    /\ calls = <<>>
    /\ received = 0
    /\ before = <<>>
    /\ events = <<>>
    /\ flipped = <<>>
    /\ handed = <<>>
    /\ region = <<>>
    /\ threads = <<>>

(* _create_chair_map raises IndexError at its first step (line 213):      *)
(* _calculate_medium_point reads corners 0, 1 and 2 of every prediction.   *)
CreateChairMapRaises(predictions) ==
    \E k \in 1..Len(predictions) : Len(predictions[k].coordinates) < 3

(* process left by the exception of _create_chair_map: nothing has been    *)
(* assigned.                                                               *)
CalibrateRaised(predictions) ==
    [chair_map |-> chair_map,
     chairs |-> chairs,
     chair_count |-> chair_count,
     predictions |-> predictions,
     event |-> FALSE,
     flipped |-> <<>>,
     branch |-> "calibrate",
     raised |-> TRUE]

(* The calibration branch counting the rows instead of the chairs.         *)
CalibrateCountRows(predictions) ==
    LET map == CreateChairMap(predictions)
        objs == Restrict(NewChairs(predictions), Range(Flatten(map)))
        count == chair_count + Len(map)
    IN  [chair_map |-> map,
         chairs |-> objs,
         chair_count |-> count,
         predictions |-> InsertInfo(predictions, map, objs, count),
         event |-> TRUE,
         flipped |-> <<>>,
         branch |-> "calibrate",
         raised |-> FALSE]

(* process, lines 343-351: the chair map is empty.  The result is the      *)
(* tracker and the predictions of the Detection object after the call, and *)
(* whether _create_event was called.                                       *)
Calibrate(predictions) ==
    LET map == CreateChairMap(predictions)
        objs == Restrict(NewChairs(predictions), Range(Flatten(map)))
        count == chair_count + SumLen(map)
    IN  [chair_map |-> map,
         chairs |-> objs,
         chair_count |-> count,
         predictions |-> InsertInfo(predictions, map, objs, count),
         event |-> TRUE,
         flipped |-> <<>>,
         branch |-> "calibrate",
         raised |-> FALSE]

(* process, lines 352-355: the chair map is not empty.  An exception of   *)
(* _check_chair_map leaves process before _insert_info.                    *)
Steady(predictions) ==
    LET r == CheckChairMap(chair_map, chairs, predictions)
    IN  [chair_map |-> chair_map,
         chairs |-> r.objs,
         chair_count |-> chair_count,
         predictions |-> IF r.changed /\ ~r.raised
                         THEN InsertInfo(predictions, chair_map, r.objs, chair_count)
                         ELSE predictions,
         event |-> r.changed /\ ~r.raised,
         flipped |-> r.flips,
         branch |-> "steady",
         raised |-> r.raised]

(* process without the test of line 343: every frame calibrates.           *)
ProcessResultAlwaysCalibrate(predictions) ==
    IF CreateChairMapRaises(predictions) THEN CalibrateRaised(predictions)
    ELSE Calibrate(predictions)

ProcessResult(predictions) ==
    IF chair_map = <<>>
    THEN IF CreateChairMapRaises(predictions) THEN CalibrateRaised(predictions)
         ELSE Calibrate(predictions)
    ELSE Steady(predictions)

(* process(detection): line 357 returns None for an empty events list; a   *)
(* call left by an exception returns nothing.                              *)
ProcessCall(predictions, earlier) ==
    \E r \in {ProcessResult(predictions)} :
        /\ received' = Len(predictions)
        /\ handed' = predictions
        /\ before' = chairs
        /\ chair_map' = r.chair_map
        /\ chairs' = r.chairs
        /\ chair_count' = r.chair_count
        /\ detection' = r.predictions
        /\ flipped' = r.flipped
        /\ calls' = Append(earlier, [branch |-> r.branch, event |-> r.event])
        /\ IF r.event
           THEN \E event_id \in UUIDs : events' = CreateEvent(event_id, DetectionRef)
           ELSE events' = <<>>
        /\ pc' = IF r.raised THEN "raised" ELSE "returned"
        /\ UNCHANGED <<region, threads>>

(* The caller hands the Detection of a new frame to process.               *)
Process ==
    /\ pc = "idle"
    /\ \E frame \in Frames : ProcessCall(frame, <<>>)

(* The caller hands the same Detection object to process a second time.    *)
Reprocess ==
    /\ pc = "returned"
    /\ Len(calls) = 1
    /\ ProcessCall(detection, calls)

(* The caller is done with the frame; its Detection and the signals are    *)
(* dropped.                                                                *)
Discard ==
    /\ pc \in {"returned", "raised"}
    /\ pc' = "idle"
    /\ detection' = <<>>
    /\ calls' = <<>>
    /\ received' = 0
    /\ before' = <<>>
    /\ events' = <<>>
    /\ flipped' = <<>>
    /\ handed' = <<>>
    /\ UNCHANGED <<chair_count, chair_map, chairs, region, threads>>

Next == Process \/ Reprocess \/ Discard

Spec == Init /\ [][Next]_vars

----------------------------------------------------------------------------
(* Frames with a malformed prediction: a run of boxes of one height, one   *)
(* of which has lost its last corners.  A box of three corners is short of *)
(* the data model's four, of two or fewer short of what the tracker reads. *)

Truncate(pred, n) == [pred EXCEPT !.coordinates = SubSeq(pred.coordinates, 1, n)]

RunFrames == { Frame(Block(b, c)) : b \in Bands, c \in 1..MaxPreds }

MalformedFrames ==
    UNION { { [frame EXCEPT ![k] = Truncate(frame[k], n)] :
                k \in 1..Len(frame), n \in 0..3 } : frame \in RunFrames }

(* The caller hands a Detection with a malformed prediction to process.    *)
ProcessMalformed ==
    /\ pc = "idle"
    /\ \E frame \in MalformedFrames : ProcessCall(frame, <<>>)

NextMalformed == Process \/ ProcessMalformed \/ Discard

SpecMalformed == Init /\ [][NextMalformed]_vars

----------------------------------------------------------------------------
(* Calibration alone: a fresh tracker is handed one frame.  The frame is   *)
(* any sequence of up to MaxCalPreds boxes at four heights.  The fourth    *)
(* (165) is exactly the row tolerance away from 110 and farther from the   *)
(* other two, so that up to three rows form, any of them may be noise, and *)
(* the row test is exercised at its limit.                                 *)

CalBands == Bands \cup {165}

CalBandSeqs == UNION { [1..n -> CalBands] : n \in 0..MaxCalPreds }

CalFrames == { Frame(bs) : bs \in CalBandSeqs }

InitCalibration ==
    /\ chair_count = 0
    /\ chair_map = <<>>
    /\ chairs = <<>>
    /\ pc = "pending"
    /\ detection \in CalFrames
    /\ calls = <<>>
    /\ received = 0
    /\ before = <<>>
    /\ events = <<>>
    /\ flipped = <<>>
    /\ handed = <<>>
    /\ region = <<>>
    /\ threads = <<>>

(* The caller hands the pending Detection to process.                      *)
ProcessPending ==
    /\ pc = "pending"
    /\ ProcessCall(detection, <<>>)

SpecCalibration == InitCalibration /\ [][ProcessPending]_vars

----------------------------------------------------------------------------
(* The region filter (src/event_factory/roi/roi.py)                        *)

MaxRoiPreds == 2   \* most predictions in a frame handed to the region filter

MinOf(S) == CHOOSE m \in S : \A v \in S : m <= v
MaxOf(S) == CHOOSE m \in S : \A v \in S : m >= v

(* The foot point taken at the vertical centre of the box.                 *)
PersonFootCentre(prediction) ==
    LET xs == {prediction.coordinates[i].x : i \in 1..Len(prediction.coordinates)}
        ys == {prediction.coordinates[i].y : i \in 1..Len(prediction.coordinates)}
    IN  Point(Scale * ((MinOf(xs) + MaxOf(xs)) \div (2 * Scale)),
              (MinOf(ys) + MaxOf(ys)) \div 2)

(* person_foot, lines 27-34.  The floor division of line 33 is on pixels:  *)
(* half the sum of two half-pixel values, floored to a whole pixel.        *)
PersonFoot(prediction) ==
    LET xs == {prediction.coordinates[i].x : i \in 1..Len(prediction.coordinates)}
        ys == {prediction.coordinates[i].y : i \in 1..Len(prediction.coordinates)}
    IN  Point(Scale * ((MinOf(xs) + MaxOf(xs)) \div (2 * Scale)), MaxOf(ys))

(* Polygon.contains(Point) of line 39: the point lies in the interior of   *)
(* the polygon, so a point of the boundary is not contained.  The interior *)
(* is decided by the parity of the edges a ray towards +x crosses.         *)
EdgeEnd(poly, i) == poly[(i % Len(poly)) + 1]

OnEdge(a, b, p) ==
    /\ (b.x - a.x) * (p.y - a.y) = (b.y - a.y) * (p.x - a.x)
    /\ MinOf({a.x, b.x}) <= p.x /\ p.x <= MaxOf({a.x, b.x})
    /\ MinOf({a.y, b.y}) <= p.y /\ p.y <= MaxOf({a.y, b.y})

OnBoundary(poly, p) == \E i \in 1..Len(poly) : OnEdge(poly[i], EdgeEnd(poly, i), p)

RayCrosses(a, b, p) ==
    /\ (a.y > p.y) # (b.y > p.y)
    /\ IF b.y > a.y
       THEN (p.x - a.x) * (b.y - a.y) < (p.y - a.y) * (b.x - a.x)
       ELSE (p.x - a.x) * (b.y - a.y) > (p.y - a.y) * (b.x - a.x)

Crossings(poly, p) ==
    Cardinality({i \in 1..Len(poly) : RayCrosses(poly[i], EdgeEnd(poly, i), p)})

Contains(poly, p) == ~OnBoundary(poly, p) /\ Crossings(poly, p) % 2 = 1

(* __pred_is_inside_region with the foot point at the centre of the box.   *)
PredIsInsideRegionCentre(poly, prediction) == Contains(poly, PersonFootCentre(prediction))

(* __pred_is_inside_region                                                 *)
PredIsInsideRegion(poly, prediction) == Contains(poly, PersonFoot(prediction))

(* The configured regions: a square, a triangle with a slanted edge and an *)
(* L-shaped polygon with a reflex vertex, in pixels.                       *)
RegionOf(pts) == [i \in 1..Len(pts) |-> Point(Scale * pts[i][1], Scale * pts[i][2])]

SquareRegion == RegionOf(<< <<0, 0>>, <<10, 0>>, <<10, 10>>, <<0, 10>> >>)
TriangleRegion == RegionOf(<< <<0, 0>>, <<10, 0>>, <<0, 10>> >>)
LRegion == RegionOf(<< <<0, 0>>, <<10, 0>>, <<10, 4>>, <<4, 4>>, <<4, 10>>, <<0, 10>> >>)

Regions == {SquareRegion, TriangleRegion, LRegion}

(* The boxes of the raw frames: 2 or 3 pixels wide and 2 high, so that the *)
(* foot points fall inside, outside, on edges and on vertices of every     *)
(* region.                                                                 *)
RoiBoxes ==
    { ChairPred(x0, y1 - 2, x0 + w, y1) :
        x0 \in {-1, 1, 3, 5, 10}, w \in {2, 3}, y1 \in {0, 4, 6, 10} }

RoiFrames == UNION { [1..n -> RoiBoxes] : n \in 0..MaxRoiPreds }

InitRoi ==
    /\ chair_count = 0
    /\ chair_map = <<>>
    /\ chairs = <<>>
    /\ pc = "raw"
    /\ detection \in RoiFrames
    /\ calls = <<>>
    /\ received = 0
    /\ before = <<>>
    /\ events = <<>>
    /\ flipped = <<>>
    /\ handed = <<>>
    /\ region \in Regions
    /\ threads = <<>>

(* RegionOfInterest.process                                                *)
RoiProcess ==
    /\ pc = "raw"
    /\ handed' = detection
    /\ detection' = SelectSeq(detection, LAMBDA prediction : PredIsInsideRegion(region, prediction))
    /\ pc' = "filtered"
    /\ UNCHANGED <<chair_count, chair_map, chairs, calls, received, before, events,
                   flipped, region, threads>>

SpecRoi == InitRoi /\ [][RoiProcess]_vars

----------------------------------------------------------------------------
(* Two process calls on one tracker without serialization.  Each call runs *)
(* on its own Detection; the steps of the calibration branch interleave:   *)
(* the test of line 343, the assignment of line 344, the start of the      *)
(* loop of line 346 (which reads self._chair_map again), the read and the  *)
(* write of each "+=" of line 347, and lines 349-351.  The steady branch   *)
(* is taken in one step.                                                   *)

Threads == {1, 2}

(* The frames of the two calls: a run of boxes of one height.              *)
ConcFrames == { Frame(Block(10, c)) : c \in 0..MaxPreds }

IdleThread ==
    [pc |-> "idle", predictions |-> <<>>, rows |-> <<>>, i |-> 0, tmp |-> 0,
     branch |-> "none", alone |-> TRUE, events |-> <<>>]

InitConcurrent ==
    /\ chair_count = 0
    /\ chair_map = <<>>
    /\ chairs = <<>>
    /\ pc = "concurrent"
    /\ detection = <<>>
    /\ calls = <<>>
    /\ received = 0
    /\ before = <<>>
    /\ events = <<>>
    /\ flipped = <<>>
    /\ handed = <<>>
    /\ region = <<>>
    /\ threads = [t \in Threads |-> IdleThread]

Busy(t) == threads[t].pc \notin {"idle", "done"}

callerVars == <<pc, detection, calls, received, before, events, flipped, handed, region>>

(* Thread t calls process and evaluates the test of line 343.  alone       *)
(* records that no other call was in progress.                             *)
Enter(t) ==
    /\ threads[t].pc = "idle"
    /\ \E frame \in ConcFrames :
          threads' = [threads EXCEPT ![t] =
                        [@ EXCEPT !.pc = IF chair_map = <<>> THEN "create" ELSE "steady",
                                  !.branch = IF chair_map = <<>> THEN "calibrate" ELSE "steady",
                                  !.predictions = frame,
                                  !.alone = \A u \in Threads \ {t} : ~Busy(u)]]
    /\ UNCHANGED <<chair_count, chair_map, chairs>>
    /\ UNCHANGED callerVars

(* Line 344.                                                               *)
CreateMap(t) ==
    /\ threads[t].pc = "create"
    /\ chair_map' = CreateChairMap(threads[t].predictions)
    /\ chairs' = Restrict(NewChairs(threads[t].predictions), Range(Flatten(chair_map')))
    /\ threads' = [threads EXCEPT ![t].pc = "loop"]
    /\ UNCHANGED chair_count
    /\ UNCHANGED callerVars

(* Line 346: the for loop takes the list self._chair_map holds now.        *)
LoopStart(t) ==
    /\ threads[t].pc = "loop"
    /\ threads' = [threads EXCEPT ![t] = [@ EXCEPT !.pc = "load", !.rows = chair_map, !.i = 0]]
    /\ UNCHANGED <<chair_count, chair_map, chairs>>
    /\ UNCHANGED callerVars

(* The sum of line 347 counting one per row.                               *)
CountAddOne(count, lines) == count + 1

(* The sum of line 347.                                                    *)
CountAdd(count, lines) == count + Len(lines)

(* Line 347, first half: self._chair_count is read and the sum computed;   *)
(* or the loop has ended.                                                  *)
CountLoad(t) ==
    /\ threads[t].pc = "load"
    /\ IF threads[t].i >= Len(threads[t].rows)
       THEN threads' = [threads EXCEPT ![t].pc = "annotate"]
       ELSE threads' = [threads EXCEPT ![t] =
                          [@ EXCEPT !.pc = "store",
                                    !.tmp = CountAdd(chair_count,
                                                     threads[t].rows[threads[t].i + 1])]]
    /\ UNCHANGED <<chair_count, chair_map, chairs>>
    /\ UNCHANGED callerVars

(* Line 347, second half: the sum is written to self._chair_count.         *)
CountStore(t) ==
    /\ threads[t].pc = "store"
    /\ chair_count' = threads[t].tmp
    /\ threads' = [threads EXCEPT ![t] = [@ EXCEPT !.pc = "load", !.i = @ + 1]]
    /\ UNCHANGED <<chair_map, chairs>>
    /\ UNCHANGED callerVars

(* Lines 349-351 and the return.                                           *)
Annotate(t) ==
    /\ threads[t].pc = "annotate"
    /\ \E event_id \in UUIDs :
          threads' = [threads EXCEPT ![t] =
                        [@ EXCEPT !.pc = "done",
                                  !.predictions = InsertInfo(@, chair_map, chairs, chair_count),
                                  !.events = CreateEvent(event_id, t)]]
    /\ UNCHANGED <<chair_count, chair_map, chairs>>
    /\ UNCHANGED callerVars

(* Lines 352-355 and the return.                                           *)
SteadyBranch(t) ==
    /\ threads[t].pc = "steady"
    /\ \E r \in {Steady(threads[t].predictions)} :
          /\ chairs' = r.chairs
          /\ \E event_id \in UUIDs :
                threads' = [threads EXCEPT ![t] =
                              [@ EXCEPT !.pc = "done",
                                        !.predictions = r.predictions,
                                        !.events = IF r.event THEN CreateEvent(event_id, t)
                                                   ELSE <<>>]]
    /\ UNCHANGED <<chair_count, chair_map>>
    /\ UNCHANGED callerVars

NextConcurrent ==
    \E t \in Threads :
        \/ Enter(t)
        \/ CreateMap(t)
        \/ LoopStart(t)
        \/ CountLoad(t)
        \/ CountStore(t)
        \/ Annotate(t)
        \/ SteadyBranch(t)

SpecConcurrent == InitConcurrent /\ [][NextConcurrent]_vars

----------------------------------------------------------------------------
(* Vocabulary of the properties                                            *)

LastCall == calls[Len(calls)]

SteadyCall == pc = "returned" /\ LastCall.branch = "steady"

CalibrationCall == pc = "returned" /\ LastCall.branch = "calibrate"

(* The box of a prediction, corners in the order of the data model,        *)
(* contains the point c.                                                   *)
BoxContains(pred, c) ==
    /\ pred.coordinates[1].x <= c.x /\ c.x <= pred.coordinates[2].x
    /\ pred.coordinates[2].y <= c.y /\ c.y <= pred.coordinates[3].y

(* Some prediction handed to the last call contains the chair's position.  *)
CoveredByFrame(ref) ==
    \E p \in 1..received : BoxContains(detection[p], chairs[ref])

WasOccupied(ref) == before[ref].occupied

CountedChanged(ref) == \E i \in 1..Len(flipped) : flipped[i] = ref

IsEventPair(ev) ==
    /\ Len(ev) = 2
    /\ ev[1].signal = "EventStartedSignal"
    /\ ev[2].signal = "EventEndedSignal"
    /\ ev[1].eventId = ev[2].eventId
    /\ ev[1].detection = DetectionRef
    /\ ev[2].detection = DetectionRef

SomeFlagChanged == \E ref \in DOMAIN chairs : chairs[ref].occupied # before[ref].occupied

----------------------------------------------------------------------------
C2_NoneOrOnePair ==
    pc = "returned" => (events = <<>> \/ IsEventPair(events))

(* A steady-state call in which several slots changed and one pair came    *)
(* back.                                                                   *)
C2_Witness ==
    /\ SteadyCall
    /\ Cardinality({ref \in DOMAIN chairs : CountedChanged(ref)}) >= 3
    /\ IsEventPair(events)

(* C3 as stated: a calibration that leaves the chair map empty returns no  *)
(* event.                                                                  *)
C3_AsStated ==
    (CalibrationCall /\ chair_map = <<>>) => events = <<>>

(* C4 as stated: when a process call on a calibrated tracker returned an   *)
(* event pair, the next call on the same Detection object returns no event *)
(* and changes no slot.                                                    *)
C4_AsStated ==
    (pc = "returned" /\ Len(calls) = 2
        /\ calls[1].branch = "steady" /\ calls[1].event) =>
            (events = <<>> /\ flipped = <<>> /\ chairs = before)

(* C5: once the chair map is not empty, no step changes its rows, the      *)
(* chairs in them or a chair's position, and no later call calibrates.     *)
C5_NeverRestructured ==
    [][chair_map # <<>> =>
          /\ chair_map' = chair_map
          /\ DOMAIN chairs' = DOMAIN chairs
          /\ \A ref \in DOMAIN chairs :
                chairs'[ref].x = chairs[ref].x /\ chairs'[ref].y = chairs[ref].y
          /\ (pc' = "returned" => calls'[Len(calls')].branch = "steady")]_vars

(* A steady-state call on a two-row map that changed some flag.            *)
C5_Witness ==
    /\ SteadyCall
    /\ Len(chair_map) = 2
    /\ SomeFlagChanged

(* C6: in steady state process returns an event pair exactly when some     *)
(* slot's flag changed, and otherwise appends nothing to the predictions.  *)
C6_EventIffChanged ==
    SteadyCall =>
        /\ SomeFlagChanged => IsEventPair(events)
        /\ ~SomeFlagChanged => (events = <<>> /\ Len(detection) = received)

(* A steady-state call on a frame with predictions, on a map with occupied *)
(* and unoccupied chairs, that changed nothing.                            *)
C6_Witness ==
    /\ SteadyCall
    /\ received > 0
    /\ ~SomeFlagChanged
    /\ events = <<>>
    /\ \E ref \in DOMAIN chairs : chairs[ref].occupied
    /\ \E ref \in DOMAIN chairs : ~chairs[ref].occupied

CandidateRows == Cluster(NewChairs(SubSeq(detection, 1, received)), 1, <<>>, <<>>)

LongRow(row) == Len(row) >= 5

(* C8: every row of the chair map has at least 5 chairs, and a calibration *)
(* keeps exactly the candidate rows of 5 or more, in their order.          *)
C8_NoiseRejection ==
    /\ \A i \in 1..Len(chair_map) : Len(chair_map[i]) >= 5
    /\ CalibrationCall => chair_map = SelectSeq(CandidateRows, LongRow)

(* A calibration with three candidate rows that dropped the first two and  *)
(* kept the third.                                                         *)
C8_Witness ==
    /\ CalibrationCall
    /\ Len(CandidateRows) = 3
    /\ chair_map = <<CandidateRows[3]>>

(* C9: a calibration that yields a chair map returns one event pair and    *)
(* leaves every chair unoccupied.                                          *)
C9_CalibrationEmits ==
    (CalibrationCall /\ chair_map # <<>>) =>
        /\ IsEventPair(events)
        /\ \A ref \in DOMAIN chairs : ~chairs[ref].occupied

(* A calibration that built a two-row map, every chair of which the        *)
(* frame covers.                                                           *)
C9_Witness ==
    /\ CalibrationCall
    /\ Len(chair_map) = 2
    /\ \A ref \in DOMAIN chairs : CoveredByFrame(ref)

(* C10: the chair count is the number of chairs over all rows of the map.  *)
C10_ChairCount == chair_count = SumLen(chair_map)

(* A calibration that failed followed by one that built the map.           *)
C10_Witness ==
    /\ pc = "returned"
    /\ Len(calls) = 2
    /\ calls[1].branch = "calibrate"
    /\ calls[2].branch = "calibrate"
    /\ chair_map # <<>>
    /\ chair_count = SumLen(chair_map)

----------------------------------------------------------------------------
(* Vocabulary of the region filter's properties: the foot point of a       *)
(* prediction in pixels, and the interior and the boundary of each         *)
(* configured region written out as inequalities.                          *)

FootX(prediction) ==
    LET xs == {prediction.coordinates[i].x : i \in 1..4}
    IN  CHOOSE f \in -20..20 :
            2 * Scale * f <= MinOf(xs) + MaxOf(xs) /\ MinOf(xs) + MaxOf(xs) < 2 * Scale * (f + 1)

FootY(prediction) ==
    CHOOSE f \in -20..20 : Scale * f = MaxOf({prediction.coordinates[i].y : i \in 1..4})

StrictlyInside(x, y) ==
    IF region = SquareRegion THEN 0 < x /\ x < 10 /\ 0 < y /\ y < 10
    ELSE IF region = TriangleRegion THEN 0 < x /\ 0 < y /\ x + y < 10
    ELSE \/ 0 < x /\ x < 10 /\ 0 < y /\ y < 4
         \/ 0 < x /\ x < 4 /\ 0 < y /\ y < 10

InsideOrOnBoundary(x, y) ==
    IF region = SquareRegion THEN 0 <= x /\ x <= 10 /\ 0 <= y /\ y <= 10
    ELSE IF region = TriangleRegion THEN 0 <= x /\ 0 <= y /\ x + y <= 10
    ELSE \/ 0 <= x /\ x <= 10 /\ 0 <= y /\ y <= 4
         \/ 0 <= x /\ x <= 4 /\ 0 <= y /\ y <= 10

----------------------------------------------------------------------------
(* Malformed geometry                                                      *)

Malformed(pred) == Len(pred.coordinates) < 4

HandedMalformed == \E p \in 1..received : Malformed(handed[p])

(* C12 as stated: a frame holding a prediction with malformed geometry     *)
(* makes process fail, in calibration and in steady state, wherever the    *)
(* prediction sits in the list, and no event is returned.                  *)
C12_AsStated ==
    (pc \in {"returned", "raised"} /\ HandedMalformed) => (pc = "raised" /\ events = <<>>)

(* C19 as stated: a steady-state call that fails on a malformed prediction *)
(* leaves every chair's occupied flag as it was before the call.           *)
C19_AsStated ==
    (pc = "raised" /\ LastCall.branch = "steady") => chairs = before

----------------------------------------------------------------------------
(* Calibration retried                                                     *)

(* The chair object ref sits at the centre of the box of the prediction    *)
(* it was made from, and is free.                                          *)
FreshAtCentre(ref) ==
    /\ 2 * chairs[ref].x = handed[ref].coordinates[1].x + handed[ref].coordinates[2].x
    /\ 2 * chairs[ref].y = handed[ref].coordinates[2].y + handed[ref].coordinates[3].y
    /\ ~chairs[ref].occupied

BuiltFromFrame ==
    /\ LastCall.branch = "calibrate"
    /\ chair_map = SelectSeq(CandidateRows, LongRow)
    /\ (\E i \in 1..Len(CandidateRows) : LongRow(CandidateRows[i])) => chair_map # <<>>
    /\ \A ref \in DOMAIN chairs : FreshAtCentre(ref)

----------------------------------------------------------------------------
(* Row clustering                                                          *)

(* Twice the y of the centre of the k-th box handed to the call.           *)
CentreY2(k) == handed[k].coordinates[2].y + handed[k].coordinates[3].y

Distance2(k, a) ==
    IF CentreY2(k) >= CentreY2(a) THEN CentreY2(k) - CentreY2(a)
    ELSE CentreY2(a) - CentreY2(k)

(* The centres of boxes k and a are less than the row tolerance apart.     *)
Near(k, a) == Distance2(k, a) < 2 * Scale * RowTolerance

AnchorsOf(rows) == {rows[i][1] : i \in 1..Len(rows)}

(* The anchor a followed by the later centres near it, in prediction       *)
(* order.                                                                  *)
RowOf(a) ==
    SelectSeq([k \in 1..received |-> k], LAMBDA k : k = a \/ (k > a /\ Near(k, a)))

----------------------------------------------------------------------------
(* Annotations                                                             *)

(* The chair map read row by row, each entry with the 0-based index of its *)
(* row.                                                                    *)
Entries ==
    Flatten([i \in 1..Len(chair_map) |->
                [j \in 1..Len(chair_map[i]) |-> [line |-> i - 1, ref |-> chair_map[i][j]]]])

StateName(ref) == IF chairs[ref].occupied THEN "ocupado" ELSE "livre"

(* C16: when process returns an event pair, the predictions are the list   *)
(* handed to it, unchanged, followed by one summary and then one marker    *)
(* per entry of the chair map row by row, 1 + chair_count in all; the      *)
(* summary's occupied count is the number of entries whose chair is        *)
(* occupied after the call and its free count is chair_count minus that;   *)
(* each marker's label has the row index and the state of its chair after  *)
(* the call.                                                               *)
C16_Annotations ==
    (pc = "returned" /\ IsEventPair(events)) =>
        LET entries == Entries
            occupied == Cardinality({e \in 1..Len(entries) : chairs[entries[e].ref].occupied})
        IN  /\ Len(detection) = received + 1 + chair_count
            /\ Len(entries) = chair_count
            /\ SubSeq(detection, 1, received) = handed
            /\ detection[received + 1].classId =
                   CountLabel(chair_count, occupied, chair_count - occupied)
            /\ \A e \in 1..Len(entries) :
                   detection[received + 1 + e].classId =
                       PointLabel(entries[e].line, StateName(entries[e].ref))

(* A steady-state call on a two-row map returned an event pair and left    *)
(* an occupied chair in the second row and a free one.                     *)
C16_Witness ==
    /\ SteadyCall
    /\ IsEventPair(events)
    /\ Len(chair_map) = 2
    /\ \E ref \in Range(chair_map[2]) : chairs[ref].occupied
    /\ \E ref \in DOMAIN chairs : ~chairs[ref].occupied
    /\ Len(detection) = received + 1 + chair_count

(* The box of the marker of entry e.                                       *)
MarkerBox(e) == detection[received + 1 + e].coordinates

(* The 2 by 2 pixel square from (x0, y0), in the corner order of the data  *)
(* model.                                                                  *)
Square2(x0, y0) ==
    << Point(x0, y0), Point(x0 + 2 * Scale, y0),
       Point(x0 + 2 * Scale, y0 + 2 * Scale), Point(x0, y0 + 2 * Scale) >>

(* C17 as stated: each marker's box is the 2 by 2 pixel square centred on  *)
(* its slot: (x-1, y-1), (x+1, y-1), (x+1, y+1), (x-1, y+1).               *)
C17_AsStated ==
    (pc = "returned" /\ IsEventPair(events)) =>
        LET entries == Entries
        IN  \A e \in 1..Len(entries) :
                MarkerBox(e) = Square2(chairs[entries[e].ref].x - Scale,
                                       chairs[entries[e].ref].y - Scale)

(* C17 amended: each marker's box is the 2 by 2 pixel square whose         *)
(* top-left corner is its slot: (x, y), (x+2, y), (x+2, y+2), (x, y+2).    *)
C17_CornerAtSlot ==
    (pc = "returned" /\ IsEventPair(events)) =>
        LET entries == Entries
        IN  \A e \in 1..Len(entries) :
                MarkerBox(e) = Square2(chairs[entries[e].ref].x, chairs[entries[e].ref].y)

(* An event pair was returned with a marker whose first corner is its      *)
(* slot and whose third corner is 2 pixels right of and below it.          *)
C17_Witness ==
    /\ pc = "returned"
    /\ IsEventPair(events)
    /\ chair_map # <<>>
    /\ MarkerBox(1)[1] = Point(chairs[chair_map[1][1]].x, chairs[chair_map[1][1]].y)
    /\ MarkerBox(1)[3] = Point(chairs[chair_map[1][1]].x + 2 * Scale,
                               chairs[chair_map[1][1]].y + 2 * Scale)

----------------------------------------------------------------------------
(* Memoryless occupancy                                                    *)

(* C20: after a steady-state call the flag of every chair is a function of *)
(* whether the frame covers the chair and of nothing else (it is the       *)
(* negation of covered), whatever the flag was before the call; two        *)
(* trackers with the same positions and different flags therefore hold     *)
(* the same flags after the same frame.                                    *)
C20_Memoryless ==
    SteadyCall => \A ref \in DOMAIN chairs : chairs[ref].occupied = ~CoveredByFrame(ref)

(* A steady-state call met, among the covered chairs and among the         *)
(* uncovered ones, one that was occupied and one that was free, and left   *)
(* each pair with one flag.                                                *)
C20_Witness ==
    /\ SteadyCall
    /\ \E r1, r2 \in DOMAIN chairs :
           /\ CoveredByFrame(r1) /\ CoveredByFrame(r2)
           /\ WasOccupied(r1) /\ ~WasOccupied(r2)
           /\ chairs[r1].occupied = chairs[r2].occupied
    /\ \E r1, r2 \in DOMAIN chairs :
           /\ ~CoveredByFrame(r1) /\ ~CoveredByFrame(r2)
           /\ WasOccupied(r1) /\ ~WasOccupied(r2)
           /\ chairs[r1].occupied = chairs[r2].occupied

----------------------------------------------------------------------------
(* Concurrent calls                                                        *)

AllDone == \A t \in Threads : threads[t].pc = "done"

(* C18: when the calls on the tracker follow one another, none starting    *)
(* while another is in progress, the chair count after them is the number  *)
(* of chairs over all rows of the map; some interleaving of two calls that *)
(* both calibrate (C18_Witness) ends with a chair count that is not.       *)
C18_SequentialCount ==
    (pc = "concurrent" /\ \A t \in Threads : ~Busy(t) /\ threads[t].alone) =>
        chair_count = SumLen(chair_map)

(* Two interleaved calls both ran the calibration branch and have          *)
(* returned, and the chair count differs from the chairs of the map.       *)
C18_Witness ==
    /\ pc = "concurrent"
    /\ AllDone
    /\ \A t \in Threads : threads[t].branch = "calibrate"
    /\ \E t \in Threads : ~threads[t].alone
    /\ chair_count # SumLen(chair_map)

----------------------------------------------------------------------------
(* One chair in several rows                                               *)

(* How many calls of _check_chair_occupied on the chair returned True      *)
(* during the last call of process.                                        *)
Flips(ref) == Cardinality({i \in 1..Len(flipped) : flipped[i] = ref})

(* C21: the entries of the chair map made from one centre are one chair:   *)
(* whenever process returns an event pair their markers show the same      *)
(* state at the same place, and a steady-state call flips the chair at     *)
(* most once although the scan visits it once per row, leaving it with     *)
(* the other flag than before when it does.                                *)
C21_OneChair ==
    /\ (pc = "returned" /\ IsEventPair(events)) =>
           LET entries == Entries
           IN  \A e1, e2 \in 1..Len(entries) :
                   entries[e1].ref = entries[e2].ref =>
                       /\ detection[received + 1 + e1].classId.state =
                              detection[received + 1 + e2].classId.state
                       /\ MarkerBox(e1) = MarkerBox(e2)
    /\ SteadyCall =>
           \A ref \in DOMAIN chairs :
               /\ Flips(ref) <= 1
               /\ Flips(ref) = 1 <=> chairs[ref].occupied # WasOccupied(ref)

(* A steady-state call flipped a chair that sits in the first and in the   *)
(* second row, once.                                                       *)
C21_Witness ==
    /\ SteadyCall
    /\ Len(chair_map) = 2
    /\ \E ref \in Range(chair_map[1]) \cap Range(chair_map[2]) :
           /\ Flips(ref) = 1
           /\ chairs[ref].occupied # WasOccupied(ref)

====
